---- MODULE Spec2Model ----
(***************************************************************************)
(* Model of anima_metrics/compute_anima_metrics_unseen_datasets.py (one    *)
(* run of main) and of create_perf_df_pwd in charts_utils.py.              *)
(*                                                                         *)
(* Conventions.  Scalars with two decimals (voxel values, metric values)   *)
(* are integers counted in hundredths: 0.5 is 50, 12.3 is 1230.  A folder  *)
(* name is the sequence of its '_'-separated tokens, so that               *)
(* "sub-01_T2w" is <<"sub-01", "T2w">> and str.split('_')[0] is Head.      *)
(***************************************************************************)
EXTENDS Integers, Sequences, FiniteSets

(* ------------------------------ bounds --------------------------------- *)
\* at most MaxFiles *_pred files and MaxFiles *_gt files in the folder
MaxFiles == 2
\* a report holds at most MaxEntries metric entries
MaxEntries == 3

(* ------------------------------ universe ------------------------------- *)
\* The sub-folders of pred_folder, in lexical order of their names.
SubjectDirs == << <<"007">>, <<"008">>, <<"sub-01", "T2w">> >>
Dirs == 1..Len(SubjectDirs)
\* The files one suffix of the glob can match, pred_folder/<dir>/<stem>_<kind>.nii.gz:
\* folder 007 may hold two of them, the other folders one (stems in lexical order).
Files == { [dir |-> 1, stem |-> 1], [dir |-> 1, stem |-> 2],
           [dir |-> 2, stem |-> 1], [dir |-> 3, stem |-> 1] }
\* Voxel values (hundredths) and volumes (a volume is one voxel wide here).
VoxelValues == {49, 50, 51}
Volumes == [{1} -> VoxelValues]

NoSubject == <<>>
NoVolume == <<>>
Absent == [run |-> -1, intact |-> FALSE]

VARIABLES
    pc,               \* position in main / get_test_metrics_by_dataset
    exc,              \* the exception that ended the run, or "none"
    pred_files,       \* sorted glob of *_pred.nii.gz
    gt_files,         \* sorted glob of *_gt.nii.gz
    i,                \* index of the zip pair being processed
    subject_pred,     \* pred_file.split('/')[-2]
    subject_gt,       \* gt_file.split('/')[-2]
    pred_raw,         \* nib.load(pred_file).get_fdata()
    gt_raw,           \* nib.load(gt_file).get_fdata()
    pred_npy,         \* the binarized prediction volume
    gt_npy,           \* the binarized ground-truth volume
    tmp_files,        \* *_bin.nii.gz files present in pred_folder
    output_folder,    \* report file of each base name: Absent or [run, intact]
    invocations,      \* os.system calls of this run, in order
    subject_filepaths,\* the *.xml paths returned by get_test_metrics_by_dataset
    j,                \* index into subject_filepaths
    subject,          \* first '_' token of the report file name
    root_node,        \* entries of the report being aggregated
    m,                \* index into root_node
    parsed,           \* the reports ET.parse has returned in this run
    test_metrics,     \* insertion-ordered dict: metric name -> list of values
    k,                \* index into test_metrics while printing
    log,              \* lines of log_<dataset>.txt
    log_before,       \* lines of the log when the run started
    \* ---- create_perf_df_pwd (charts_utils.py) ----
    pwd_pc,           \* position in create_perf_df_pwd
    dataframe,        \* the argument: column -> value of one row
    df_copy,          \* the dataframe being returned
    methods,          \* the argument `methods`
    contrasts,        \* the argument `contrasts`
    ref_contrast,     \* the argument `ref_contrast`
    method_idx,       \* index of model_prefix in methods
    contrast_idx      \* index of model_contrast in agg_cols

vars == << pc, exc, pred_files, gt_files, i, subject_pred, subject_gt,
           pred_raw, gt_raw, pred_npy, gt_npy, tmp_files, output_folder,
           invocations,
           subject_filepaths, j, subject, root_node, m, parsed,
           test_metrics, k, log, log_before,
           pwd_pc, dataframe, df_copy, methods, contrasts, ref_contrast,
           method_idx, contrast_idx >>

animaVars == << pc, exc, pred_files, gt_files, i, subject_pred, subject_gt,
                pred_raw, gt_raw, pred_npy, gt_npy, tmp_files, output_folder,
                invocations, subject_filepaths, j, subject, root_node, m, parsed,
                test_metrics, k, log, log_before >>
pwdVars == << pwd_pc, dataframe, df_copy, methods, contrasts, ref_contrast,
              method_idx, contrast_idx >>
pairVars == << pred_files, gt_files, i, subject_pred, subject_gt,
               pred_raw, gt_raw, pred_npy, gt_npy >>
volVars == << pred_raw, gt_raw, pred_npy, gt_npy >>
aggVars == << subject_filepaths, j, subject, root_node, m, parsed,
              test_metrics, k >>

(* ------------------------------ helpers -------------------------------- *)
Min(a, b) == IF a < b THEN a ELSE b

\* path order of two glob matches: folder name first, then file name
PathLess(f, g) == f.dir < g.dir \/ (f.dir = g.dir /\ f.stem < g.stem)

\* sorted(glob.glob(...)): the strictly increasing sequence over a set of files
Sorted(S) ==
    CHOOSE s \in [1..Cardinality(S) -> S] :
        /\ \A a \in S : \E n \in DOMAIN s : s[n] = a
        /\ \A a, b \in DOMAIN s : a < b => PathLess(s[a], s[b])

\* the possible contents of the folder for one suffix
Folders == { S \in SUBSET Files : Cardinality(S) <= MaxFiles }

\* zip(pred_files, gt_files) stops at the shorter list
ZipLen(p, g) == Min(Len(p), Len(g))

\* file.split('/')[-2]: the name of the folder that holds the file
SubjectOf(f) == SubjectDirs[f.dir]

\* the assert of line 128 passes
\* (variant: the assert stripped, as under python -O)
AssertOk_disabled(sp, sg) == TRUE
AssertOk(sp, sg) == sp = sg

\* np.array(x > 0.5, dtype=float)
Half == 50
\* (variant: a non-strict threshold)
Binarize_ge(v) == [n \in DOMAIN v |-> IF v[n] >= Half THEN 1 ELSE 0]
Binarize(v) == [n \in DOMAIN v |-> IF v[n] > Half THEN 1 ELSE 0]

\* the file pred_folder/<subject>_<kind>_bin.nii.gz is one of `files`
HasTmp(files, s, kind) == \E f \in files : f.subject = s /\ f.kind = kind

\* nib.save(img, os.path.join(pred_folder, f"{subject}_{kind}_bin.nii.gz")):
\* the file is created, or overwritten when it exists
nib_save(files, s, kind, data) ==
    { f \in files : ~(f.subject = s /\ f.kind = kind) }
        \cup { [subject |-> s, kind |-> kind, data |-> data] }

\* os.remove(os.path.join(pred_folder, f"{subject}_{kind}_bin.nii.gz"))
\* (variant: the file is left behind)
os_remove_noop(files, s, kind) == files
os_remove(files, s, kind) == { f \in files : ~(f.subject = s /\ f.kind = kind) }

\* the folder index of a base name (output_folder is indexed by it)
DirOf(s) == CHOOSE d \in Dirs : SubjectDirs[d] = s

\* os.listdir order is arbitrary: every arrangement of the set
Perms(S) ==
    { s \in [1..Cardinality(S) -> S] : \A a, b \in DOMAIN s : a # b => s[a] # s[b] }

(* ----------------------------- the reports ----------------------------- *)
\* animaSegPerfAnalyzer -o <base> -X writes <base>_global.xml
ReportName(base) == Append(base, "global.xml")

\* os.path.split(subject_filepath)[-1].split('_')[0]
SubjectToken(name) == Head(name)

\* int(subject) succeeds: the token is an integer literal
IsIntLiteral(tok) == tok \in {"007", "008"}

\* The entries of a report, in document order: the n-th entry has the n-th name.
MetricNames == <<"Dice", "Hausdorff", "Jaccard", "Sensitivity">>
TextsOf(n) ==
    CASE n = 1 -> {"0.91", "inf"}
      [] n = 2 -> {"12.3", "9.8"}
      [] n = 3 -> {"-inf", "nan"}
      [] OTHER -> {"0.5"}
AllTexts == {"0.91", "inf", "12.3", "9.8", "-inf", "nan", "0.5"}
Reports ==
    UNION { { [q \in 1..n |-> [name |-> MetricNames[q], text |-> t[q]]] :
                t \in { u \in [1..n -> AllTexts] : \A q \in 1..n : u[q] \in TextsOf(q) } } :
            n \in 0..MaxEntries }

\* float(metric.text); finite values are counted in hundredths
Finite(x) == [cls |-> "finite", num |-> x]
FloatOf(text) ==
    CASE text = "0.91" -> Finite(91)
      [] text = "12.3" -> Finite(1230)
      [] text = "9.8" -> Finite(980)
      [] text = "0.5" -> Finite(50)
      [] text = "inf" -> [cls |-> "inf", num |-> 1]
      [] text = "-inf" -> [cls |-> "inf", num |-> -1]
      [] text = "nan" -> [cls |-> "nan", num |-> 0]

\* len(root_node) == 2
\* (variant: no report is taken for an empty ground truth)
IsEmptyGT_never(root) == FALSE
IsEmptyGT(root) == Len(root) = 2

\* np.isinf(value) or np.isnan(value)
IsDropped(value) == value.cls = "inf" \/ value.cls = "nan"

(* ------------------------ the aggregate table -------------------------- *)
\* test_metrics is a defaultdict(list); a dict keeps its keys in insertion order
HasKey(d, key) == \E n \in DOMAIN d : d[n].key = key
ValuesOf(d, key) ==
    IF HasKey(d, key) THEN d[CHOOSE n \in DOMAIN d : d[n].key = key].values ELSE <<>>

\* test_metrics[name].append(value)
\* (variant: the list is replaced by the new value)
DictAppend_replace(d, key, v) ==
    IF HasKey(d, key)
    THEN [n \in DOMAIN d |->
            IF d[n].key = key THEN [d[n] EXCEPT !.values = <<v>>] ELSE d[n]]
    ELSE Append(d, [key |-> key, values |-> <<v>>])
DictAppend(d, key, v) ==
    IF HasKey(d, key)
    THEN [n \in DOMAIN d |->
            IF d[n].key = key THEN [d[n] EXCEPT !.values = Append(@, v)] ELSE d[n]]
    ELSE Append(d, [key |-> key, values |-> <<v>>])

RECURSIVE SumSeq(_)
SumSeq(a) == IF a = <<>> THEN 0 ELSE Head(a) + SumSeq(Tail(a))

\* np.mean(a): sum / len, kept as the fraction num / den
np_mean(a) == [num |-> SumSeq(a), den |-> Len(a)]

\* np.std(a) is the square root of np.var(a):
\* mean(abs(a - a.mean())**2) with divisor len(a) - ddof, ddof = 0
RECURSIVE SumSqDev(_, _, _)
SumSqDev(a, n, s) ==
    IF a = <<>> THEN 0
    ELSE (n * Head(a) - s) * (n * Head(a) - s) + SumSqDev(Tail(a), n, s)
\* (variant: Bessel's correction, ddof = 1)
np_var_ddof1(a) ==
    [num |-> SumSqDev(a, Len(a), SumSeq(a)),
     den |-> IF Len(a) = 1 THEN 1 ELSE Len(a) * Len(a) * (Len(a) - 1)]
np_var(a) ==
    [num |-> SumSqDev(a, Len(a), SumSeq(a)), den |-> Len(a) * Len(a) * Len(a)]

\* the integers nearest to n / d (both of them on a tie, which the binary
\* float decides either way)
Nearest(n, d) ==
    IF 2 * (n % d) < d THEN {n \div d}
    ELSE IF 2 * (n % d) > d THEN {n \div d + 1}
    ELSE {n \div d, n \div d + 1}

\* the largest s with s * s <= n
RECURSIVE Bisect(_, _, _)
Bisect(n, lo, hi) ==
    IF hi - lo <= 1 THEN lo
    ELSE IF ((lo + hi) \div 2) * ((lo + hi) \div 2) <= n
         THEN Bisect(n, (lo + hi) \div 2, hi)
         ELSE Bisect(n, lo, (lo + hi) \div 2)
SqrtFloor(n) == Bisect(n, 0, 46341)

\* "%0.3f" % x for x = q.num / q.den hundredths: the thousandths printed
Format3(q) == Nearest(10 * q.num, q.den)

\* "%0.3f" % sqrt(x) for x = q.num / q.den squared hundredths
Format3Sqrt(q) ==
    LET s == SqrtFloor((400 * q.num) \div q.den)
    IN  IF s % 2 = 1 /\ s * s * q.den = 400 * q.num
        THEN {(s + 1) \div 2 - 1, (s + 1) \div 2}
        ELSE {(s + 1) \div 2}

\* with open(log, 'a') as f: print(line, file=f)
\* (variant: mode 'w' truncates the file)
open_w_print(lines, line) == <<line>>
open_a_print(lines, line) == Append(lines, line)

(* ------------------------------- Init ---------------------------------- *)
\* The log holds the lines of an earlier run, and the output folder may hold the
\* report an earlier run (run 0) left for folder 007.
OldReports ==
    { [d \in Dirs |-> Absent],
      [d \in Dirs |-> IF d = 1 THEN [run |-> 0, intact |-> TRUE] ELSE Absent] }
OldLog == << [kind |-> "header"], [kind |-> "metric", key |-> "Dice", mean |-> 910, std |-> 0] >>

Init ==
    /\ pc = "glob"
    /\ exc = "none"
    /\ pred_files = <<>>
    /\ gt_files = <<>>
    /\ i = 0
    /\ subject_pred = NoSubject
    /\ subject_gt = NoSubject
    /\ pred_raw = NoVolume
    /\ gt_raw = NoVolume
    /\ pred_npy = NoVolume
    /\ gt_npy = NoVolume
    /\ tmp_files = {}
    /\ output_folder \in OldReports
    /\ invocations = <<>>
    /\ subject_filepaths = <<>>
    /\ j = 0
    /\ subject = ""
    /\ root_node = <<>>
    /\ m = 0
    /\ parsed = <<>>
    /\ test_metrics = <<>>
    /\ k = 0
    /\ log \in {<<>>, OldLog}
    /\ log_before = log
    /\ pwd_pc = "idle"
    /\ dataframe = <<>>
    /\ df_copy = <<>>
    /\ methods = <<>>
    /\ contrasts = <<>>
    /\ ref_contrast = ""
    /\ method_idx = 0
    /\ contrast_idx = 0

(* --------------------- get_test_metrics_by_dataset --------------------- *)
\* lines 117-118
Glob ==
    /\ pc = "glob"
    /\ \E P \in Folders, G \in Folders :
        /\ pred_files' = Sorted(P)
        /\ gt_files' = Sorted(G)
    /\ i' = 1
    /\ pc' = "loop"
    /\ UNCHANGED << exc, subject_pred, subject_gt, volVars, tmp_files,
                    output_folder, invocations, log, log_before >>
    /\ UNCHANGED aggVars
    /\ UNCHANGED pwdVars

\* lines 121-128, the pair passes the assert
PairOk ==
    /\ pc = "loop"
    /\ i <= ZipLen(pred_files, gt_files)
    /\ AssertOk(SubjectOf(pred_files[i]), SubjectOf(gt_files[i]))
    /\ subject_pred' = SubjectOf(pred_files[i])
    /\ subject_gt' = SubjectOf(gt_files[i])
    /\ pc' = "load"
    /\ UNCHANGED << exc, pred_files, gt_files, i, volVars, tmp_files,
                    output_folder, invocations, log, log_before >>
    /\ UNCHANGED aggVars
    /\ UNCHANGED pwdVars

\* lines 121-128, the assert raises AssertionError, which nothing catches
PairMismatch ==
    /\ pc = "loop"
    /\ i <= ZipLen(pred_files, gt_files)
    /\ ~AssertOk(SubjectOf(pred_files[i]), SubjectOf(gt_files[i]))
    /\ subject_pred' = SubjectOf(pred_files[i])
    /\ subject_gt' = SubjectOf(gt_files[i])
    /\ pc' = "raised"
    /\ exc' = "AssertionError"
    /\ UNCHANGED << pred_files, gt_files, i, volVars, tmp_files,
                    output_folder, invocations, log, log_before >>
    /\ UNCHANGED aggVars
    /\ UNCHANGED pwdVars

\* lines 131-132
Load ==
    /\ pc = "load"
    /\ pred_raw' \in Volumes
    /\ gt_raw' \in Volumes
    /\ pc' = "binarize"
    /\ UNCHANGED << exc, pred_files, gt_files, i, subject_pred, subject_gt,
                    pred_npy, gt_npy, tmp_files, output_folder, invocations, log, log_before >>
    /\ UNCHANGED aggVars
    /\ UNCHANGED pwdVars

\* lines 135-136
BinarizeBoth ==
    /\ pc = "binarize"
    /\ pred_npy' = Binarize(pred_raw)
    /\ gt_npy' = Binarize(gt_raw)
    /\ pc' = "save_pred"
    /\ UNCHANGED << exc, pred_files, gt_files, i, subject_pred, subject_gt,
                    pred_raw, gt_raw, tmp_files, output_folder, invocations, log, log_before >>
    /\ UNCHANGED aggVars
    /\ UNCHANGED pwdVars

\* lines 139, 141
SavePred ==
    /\ pc = "save_pred"
    /\ tmp_files' = nib_save(tmp_files, subject_pred, "pred", pred_npy)
    /\ pc' = "save_gt"
    /\ UNCHANGED << exc, pred_files, gt_files, i, subject_pred, subject_gt,
                    volVars, output_folder, invocations, log, log_before >>
    /\ UNCHANGED aggVars
    /\ UNCHANGED pwdVars

\* lines 140, 142
SaveGt ==
    /\ pc = "save_gt"
    /\ tmp_files' = nib_save(tmp_files, subject_gt, "gt", gt_npy)
    /\ pc' = "invoke"
    /\ UNCHANGED << exc, pred_files, gt_files, i, subject_pred, subject_gt,
                    volVars, output_folder, invocations, log, log_before >>
    /\ UNCHANGED aggVars
    /\ UNCHANGED pwdVars

\* What one run of animaSegPerfAnalyzer -o <output_folder>/<base> -X leaves at
\* <base>_global.xml: a complete report, a truncated one, or what was there.
AnalyzerOutcomes(old) == { [run |-> 1, intact |-> TRUE], [run |-> 1, intact |-> FALSE], old }

\* lines 147-153: os.system returns whatever the analyzer did; its status is dropped
Invoke ==
    /\ pc = "invoke"
    /\ invocations' = Append(invocations, [pair |-> i, out |-> subject_pred])
    /\ \E r \in AnalyzerOutcomes(output_folder[DirOf(subject_pred)]) :
        output_folder' = [output_folder EXCEPT ![DirOf(subject_pred)] = r]
    /\ pc' = "remove_pred"
    /\ UNCHANGED << exc, pred_files, gt_files, i, subject_pred, subject_gt,
                    volVars, tmp_files, log, log_before >>
    /\ UNCHANGED aggVars
    /\ UNCHANGED pwdVars

\* line 156
RemovePred ==
    /\ pc = "remove_pred"
    /\ HasTmp(tmp_files, subject_pred, "pred")
    /\ tmp_files' = os_remove(tmp_files, subject_pred, "pred")
    /\ pc' = "remove_gt"
    /\ UNCHANGED << exc, pred_files, gt_files, i, subject_pred, subject_gt,
                    volVars, output_folder, invocations, log, log_before >>
    /\ UNCHANGED aggVars
    /\ UNCHANGED pwdVars

\* line 157, then the next pair of the zip
RemoveGt ==
    /\ pc = "remove_gt"
    /\ HasTmp(tmp_files, subject_gt, "gt")
    /\ tmp_files' = os_remove(tmp_files, subject_gt, "gt")
    /\ i' = i + 1
    /\ pc' = "loop"
    /\ UNCHANGED << exc, pred_files, gt_files, subject_pred, subject_gt,
                    volVars, output_folder, invocations, log, log_before >>
    /\ UNCHANGED aggVars
    /\ UNCHANGED pwdVars

\* lines 160-163, once the zip is exhausted: os.listdir gives the *.xml files in
\* any order; the locals of get_test_metrics_by_dataset end with the call
ReturnFilepaths ==
    /\ pc = "loop"
    /\ i > ZipLen(pred_files, gt_files)
    /\ subject_filepaths' \in Perms({ d \in Dirs : output_folder[d] # Absent })
    /\ pred_files' = <<>>
    /\ gt_files' = <<>>
    /\ i' = 0
    /\ subject_pred' = NoSubject
    /\ subject_gt' = NoSubject
    /\ pred_raw' = NoVolume
    /\ gt_raw' = NoVolume
    /\ pred_npy' = NoVolume
    /\ gt_npy' = NoVolume
    /\ j' = 1
    /\ pc' = "agg"
    /\ UNCHANGED << exc, tmp_files, output_folder, invocations, subject, root_node,
                    m, parsed, test_metrics, k, log, log_before >>
    /\ UNCHANGED pwdVars

(* -------------------------- main: aggregation -------------------------- *)
\* lines 195-197, the file parses
ParseReport ==
    /\ pc = "agg"
    /\ j <= Len(subject_filepaths)
    /\ output_folder[subject_filepaths[j]].intact
    /\ subject' = SubjectToken(ReportName(SubjectDirs[subject_filepaths[j]]))
    /\ \E r \in Reports :
        /\ root_node' = r
        /\ parsed' = Append(parsed, [path |-> subject_filepaths[j], root |-> r])
    /\ pc' = "check_empty"
    /\ UNCHANGED << exc, subject_filepaths, j, m, test_metrics, k, output_folder,
                    tmp_files, invocations, log, log_before >>
    /\ UNCHANGED pairVars
    /\ UNCHANGED pwdVars

\* lines 195-197, ET.parse raises ParseError on a truncated file
ParseRaises ==
    /\ pc = "agg"
    /\ j <= Len(subject_filepaths)
    /\ ~output_folder[subject_filepaths[j]].intact
    /\ subject' = SubjectToken(ReportName(SubjectDirs[subject_filepaths[j]]))
    /\ pc' = "raised"
    /\ exc' = "ParseError"
    /\ UNCHANGED << subject_filepaths, j, root_node, m, parsed, test_metrics, k,
                    output_folder, tmp_files, invocations, log, log_before >>
    /\ UNCHANGED pairVars
    /\ UNCHANGED pwdVars

\* lines 202-204: the report of an empty ground truth is skipped
SkipEmptyGT ==
    /\ pc = "check_empty"
    /\ IsEmptyGT(root_node)
    /\ IsIntLiteral(subject)
    /\ j' = j + 1
    /\ pc' = "agg"
    /\ UNCHANGED << exc, subject_filepaths, subject, root_node, m, parsed,
                    test_metrics, k, output_folder, tmp_files, invocations, log,
                    log_before >>
    /\ UNCHANGED pairVars
    /\ UNCHANGED pwdVars

\* line 203: int(subject) in the notice raises ValueError
SkipEmptyGTRaises ==
    /\ pc = "check_empty"
    /\ IsEmptyGT(root_node)
    /\ ~IsIntLiteral(subject)
    /\ pc' = "raised"
    /\ exc' = "ValueError"
    /\ UNCHANGED << subject_filepaths, j, subject, root_node, m, parsed,
                    test_metrics, k, output_folder, tmp_files, invocations, log,
                    log_before >>
    /\ UNCHANGED pairVars
    /\ UNCHANGED pwdVars

\* line 206: the report is not skipped
EnterMetrics ==
    /\ pc = "check_empty"
    /\ ~IsEmptyGT(root_node)
    /\ m' = 1
    /\ pc' = "metric"
    /\ UNCHANGED << exc, subject_filepaths, j, subject, root_node, parsed,
                    test_metrics, k, output_folder, tmp_files, invocations, log,
                    log_before >>
    /\ UNCHANGED pairVars
    /\ UNCHANGED pwdVars

\* lines 207-213: a finite value is appended
MetricAppend ==
    /\ pc = "metric"
    /\ m <= Len(root_node)
    /\ ~IsDropped(FloatOf(root_node[m].text))
    /\ test_metrics' = DictAppend(test_metrics, root_node[m].name,
                                  FloatOf(root_node[m].text).num)
    /\ m' = m + 1
    /\ UNCHANGED << pc, exc, subject_filepaths, j, subject, root_node, parsed, k,
                    output_folder, tmp_files, invocations, log, log_before >>
    /\ UNCHANGED pairVars
    /\ UNCHANGED pwdVars

\* lines 207-211: an infinite or NaN value is dropped with a notice
MetricDrop ==
    /\ pc = "metric"
    /\ m <= Len(root_node)
    /\ IsDropped(FloatOf(root_node[m].text))
    /\ IsIntLiteral(subject)
    /\ m' = m + 1
    /\ UNCHANGED << pc, exc, subject_filepaths, j, subject, root_node, parsed,
                    test_metrics, k, output_folder, tmp_files, invocations, log,
                    log_before >>
    /\ UNCHANGED pairVars
    /\ UNCHANGED pwdVars

\* line 210: int(subject) in the notice raises ValueError
MetricDropRaises ==
    /\ pc = "metric"
    /\ m <= Len(root_node)
    /\ IsDropped(FloatOf(root_node[m].text))
    /\ ~IsIntLiteral(subject)
    /\ pc' = "raised"
    /\ exc' = "ValueError"
    /\ UNCHANGED << subject_filepaths, j, subject, root_node, m, parsed,
                    test_metrics, k, output_folder, tmp_files, invocations, log,
                    log_before >>
    /\ UNCHANGED pairVars
    /\ UNCHANGED pwdVars

\* line 206 exhausted: on to the next report
ReportDone ==
    /\ pc = "metric"
    /\ m > Len(root_node)
    /\ j' = j + 1
    /\ pc' = "agg"
    /\ UNCHANGED << exc, subject_filepaths, subject, root_node, m, parsed,
                    test_metrics, k, output_folder, tmp_files, invocations, log,
                    log_before >>
    /\ UNCHANGED pairVars
    /\ UNCHANGED pwdVars

\* lines 216-219, once every report is visited: the header line
LogHeader ==
    /\ pc = "agg"
    /\ j > Len(subject_filepaths)
    /\ log' = open_a_print(log, [kind |-> "header"])
    /\ k' = 1
    /\ pc' = "emit"
    /\ UNCHANGED << exc, subject_filepaths, j, subject, root_node, m, parsed,
                    test_metrics, output_folder, tmp_files, invocations, log_before >>
    /\ UNCHANGED pairVars
    /\ UNCHANGED pwdVars

\* lines 220-226: one line for the k-th key of test_metrics
EmitMetric ==
    /\ pc = "emit"
    /\ k <= Len(test_metrics)
    /\ \E mean \in Format3(np_mean(test_metrics[k].values)),
          std \in Format3Sqrt(np_var(test_metrics[k].values)) :
        log' = open_a_print(log, [kind |-> "metric", key |-> test_metrics[k].key,
                                  mean |-> mean, std |-> std])
    /\ k' = k + 1
    /\ UNCHANGED << pc, exc, subject_filepaths, j, subject, root_node, m, parsed,
                    test_metrics, output_folder, tmp_files, invocations, log_before >>
    /\ UNCHANGED pairVars
    /\ UNCHANGED pwdVars

\* line 220 exhausted: main returns
Finish ==
    /\ pc = "emit"
    /\ k > Len(test_metrics)
    /\ pc' = "done"
    /\ UNCHANGED << exc, subject_filepaths, j, subject, root_node, m, parsed,
                    test_metrics, k, output_folder, tmp_files, invocations, log,
                    log_before >>
    /\ UNCHANGED pairVars
    /\ UNCHANGED pwdVars

Next ==
    \/ Glob
    \/ PairOk
    \/ PairMismatch
    \/ Load
    \/ BinarizeBoth
    \/ SavePred
    \/ SaveGt
    \/ Invoke
    \/ RemovePred
    \/ RemoveGt
    \/ ReturnFilepaths
    \/ ParseReport
    \/ ParseRaises
    \/ SkipEmptyGT
    \/ SkipEmptyGTRaises
    \/ EnterMetrics
    \/ MetricAppend
    \/ MetricDrop
    \/ MetricDropRaises
    \/ ReportDone
    \/ LogHeader
    \/ EmitMetric
    \/ Finish

Spec == Init /\ [][Next]_vars

(* ======================= properties of one run ========================= *)
BodySteps == {"load", "binarize", "save_pred", "save_gt", "invoke", "remove_pred", "remove_gt"}

\* the finite values a report holds for `key`, in document order
RECURSIVE EntryValues(_, _)
EntryValues(root, key) ==
    IF root = <<>> THEN <<>>
    ELSE (IF Head(root).name = key /\ FloatOf(Head(root).text).cls = "finite"
          THEN <<FloatOf(Head(root).text).num>> ELSE <<>>)
         \o EntryValues(Tail(root), key)

\* the finite values of `key` in the reports of `ps` that have other than two entries
RECURSIVE Collected(_, _)
Collected(ps, key) ==
    IF ps = <<>> THEN <<>>
    ELSE (IF Len(Head(ps).root) = 2 THEN <<>> ELSE EntryValues(Head(ps).root, key))
         \o Collected(Tail(ps), key)

RECURSIVE SumOfSquares(_)
SumOfSquares(a) == IF a = <<>> THEN 0 ELSE Head(a) * Head(a) + SumOfSquares(Tail(a))

Names == { MetricNames[n] : n \in DOMAIN MetricNames }
NewLines == SubSeq(log, Len(log_before) + 1, Len(log))

\* C1: when the k-th zipped pair has different identifiers the run ends there with
\* AssertionError: the k-1 earlier pairs were each analysed, nothing was written or
\* invoked for pair k or later, nothing was parsed, aggregated or logged, and no
\* step of the loop body ever runs on a mismatched pair.
C1_MismatchHalts ==
    /\ pc \in BodySteps => subject_pred = subject_gt
    /\ exc = "AssertionError" =>
        /\ pc = "raised"
        /\ ~ENABLED Next
        /\ SubjectOf(pred_files[i]) # SubjectOf(gt_files[i])
        /\ Len(invocations) = i - 1
        /\ \A n \in DOMAIN invocations : invocations[n].pair < i
        /\ tmp_files = {}
        /\ subject_filepaths = <<>>
        /\ parsed = <<>>
        /\ test_metrics = <<>>
        /\ log = log_before

C1_Witness ==
    /\ exc = "AssertionError"
    /\ i = 2
    /\ Len(invocations) = 1

\* C2: a report with exactly two entries is skipped: it adds no value to any
\* metric list and the run goes on to the next report (it does not end at it).
C2_TwoEntryReportSkipped ==
    /\ \A key \in Names :
        pc \in {"agg", "emit", "done"} => ValuesOf(test_metrics, key) = Collected(parsed, key)
    /\ ~(pc = "raised" /\ exc = "ValueError" /\ Len(root_node) = 2)

\* C3: in a report that is not skipped, an entry that is +inf, -inf or NaN is not
\* appended, the run does not raise, and the entries and reports after it are
\* still visited.
C3_NonFiniteDropped ==
    /\ \A key \in Names :
        pc \in {"agg", "emit", "done"} => ValuesOf(test_metrics, key) = Collected(parsed, key)
    /\ ~(pc = "raised" /\ exc = "ValueError" /\ Len(root_node) # 2)

\* C4: every metric line the run writes carries the population mean and the
\* population standard deviation (divisor N) of exactly the finite values of that
\* metric in the parsed reports that were not skipped, to the three printed
\* decimals; a finished run has one such line for each metric that has a value.
C4_PopulationMeanStd ==
    /\ \A n \in DOMAIN NewLines :
        NewLines[n].kind = "metric" =>
            LET a == Collected(parsed, NewLines[n].key)
                N == Len(a)
                S == SumSeq(a)
                D == N * SumOfSquares(a) - S * S
                mean == NewLines[n].mean
                std == NewLines[n].std
            IN  /\ N > 0
                /\ 2 * N * mean - 20 * S <= N
                /\ 20 * S - 2 * N * mean <= N
                /\ std >= 0
                /\ 400 * D <= (2 * std * N + N) * (2 * std * N + N)
                /\ std > 0 => (2 * std * N - N) * (2 * std * N - N) <= 400 * D
    /\ pc = "done" =>
        \A key \in Names :
            Cardinality({ n \in DOMAIN NewLines :
                            NewLines[n].kind = "metric" /\ NewLines[n].key = key })
                = IF Collected(parsed, key) = <<>> THEN 0 ELSE 1

C4_Witness ==
    /\ pc = "done"
    /\ \E n \in DOMAIN NewLines :
        /\ NewLines[n].kind = "metric"
        /\ NewLines[n].key = "Hausdorff"
        /\ Collected(parsed, "Hausdorff") = <<1230, 980>>
        /\ NewLines[n].mean = 11050
        /\ NewLines[n].std = 1250
    /\ Len(Collected(parsed, "Dice")) = 1

\* C5 as stated: with exactly the two reports A {Dice 0.91, Hausdorff 12.3} and
\* B {Dice inf, Hausdorff 9.8}, a finished run has Dice [0.91] (mean 0.91, std 0)
\* and Hausdorff {12.3, 9.8} (mean 11.05).
ReportA == << [name |-> "Dice", text |-> "0.91"], [name |-> "Hausdorff", text |-> "12.3"] >>
ReportB == << [name |-> "Dice", text |-> "inf"], [name |-> "Hausdorff", text |-> "9.8"] >>
TwoReportScenario ==
    /\ Len(subject_filepaths) = 2
    /\ Len(parsed) = 2
    /\ {parsed[1].root, parsed[2].root} = {ReportA, ReportB}

C5_AsStated ==
    (TwoReportScenario /\ pc = "done") =>
        /\ ValuesOf(test_metrics, "Dice") = <<91>>
        /\ Len(ValuesOf(test_metrics, "Hausdorff")) = 2
        /\ { ValuesOf(test_metrics, "Hausdorff")[n] : n \in 1..2 } = {1230, 980}
        /\ \E n \in DOMAIN NewLines :
            NewLines[n] = [kind |-> "metric", key |-> "Dice", mean |-> 910, std |-> 0]
        /\ \E n \in DOMAIN NewLines :
            NewLines[n].kind = "metric" /\ NewLines[n].key = "Hausdorff"
                /\ NewLines[n].mean = 11050

\* C5, amended: both reports have exactly two entries, so both are skipped: the
\* aggregate table stays empty and a finished run logs the header line only.
C5_BothSkipped ==
    TwoReportScenario =>
        /\ test_metrics = <<>>
        /\ pc = "done" => NewLines = << [kind |-> "header"] >>

C5_Witness == TwoReportScenario /\ pc = "done"

\* C6: the log is only appended to: what it held before the run stays an
\* unchanged prefix; nothing is written before the aggregation ends, and a
\* finished run has added, after the header, one line per key of the aggregate
\* table, in the table's order.
C6_LogAppendOnly ==
    /\ Len(log) >= Len(log_before)
    /\ SubSeq(log, 1, Len(log_before)) = log_before
    /\ pc \notin {"emit", "done"} => log = log_before
    /\ pc = "done" =>
        /\ Len(NewLines) = 1 + Len(test_metrics)
        /\ NewLines[1].kind = "header"
        /\ \A n \in DOMAIN test_metrics :
            NewLines[n + 1].kind = "metric" /\ NewLines[n + 1].key = test_metrics[n].key
        /\ \A a, b \in DOMAIN test_metrics : a # b => test_metrics[a].key # test_metrics[b].key

C6_Witness ==
    /\ pc = "done"
    /\ log_before # <<>>
    /\ Len(test_metrics) = 2

\* C7: a binarized voxel written to a temporary file is 1 exactly when the loaded
\* voxel is above 0.5: 0.5 itself gives 0 and 0.51 gives 1, for prediction and
\* ground truth alike.
C7_StrictThreshold ==
    \A f \in tmp_files :
        LET raw == IF f.kind = "pred" THEN pred_raw ELSE gt_raw
        IN  /\ DOMAIN f.data = DOMAIN raw
            /\ \A n \in DOMAIN raw :
                /\ f.data[n] \in {0, 1}
                /\ f.data[n] = 1 <=> raw[n] >= 51
                /\ raw[n] = 50 => f.data[n] = 0

C7_Witness ==
    \E f, g \in tmp_files :
        /\ f.kind = "pred" /\ pred_raw[1] = 50 /\ f.data[1] = 0
        /\ g.kind = "gt" /\ gt_raw[1] = 51 /\ g.data[1] = 1

\* C9: the temporary files on disk are those of the subject being processed and
\* of no other: both exist when the analyzer is invoked, the analyzer has run
\* before either is removed, and none exists between two subjects, after the
\* loop, or after an identifier mismatch.
C9_TempFilesPerSubject ==
    /\ \A f \in tmp_files : f.subject = subject_pred /\ pc \in BodySteps
    /\ pc \in {"load", "binarize", "save_pred"} =>
        tmp_files = {} /\ Len(invocations) = i - 1
    /\ pc = "save_gt" =>
        HasTmp(tmp_files, subject_pred, "pred") /\ Cardinality(tmp_files) = 1
            /\ Len(invocations) = i - 1
    /\ pc = "invoke" =>
        HasTmp(tmp_files, subject_pred, "pred") /\ HasTmp(tmp_files, subject_gt, "gt")
            /\ Len(invocations) = i - 1
    /\ pc = "remove_pred" =>
        HasTmp(tmp_files, subject_pred, "pred") /\ HasTmp(tmp_files, subject_gt, "gt")
            /\ Len(invocations) = i /\ invocations[i].pair = i
    /\ pc = "remove_gt" =>
        HasTmp(tmp_files, subject_gt, "gt") /\ Cardinality(tmp_files) = 1
            /\ Len(invocations) = i
    /\ pc \notin BodySteps => tmp_files = {}

C9_Witness ==
    /\ pc = "invoke"
    /\ i = 2
    /\ Cardinality(tmp_files) = 2
    /\ subject_pred # invocations[1].out

\* C10: the analyzer is invoked once for each pair, in order, and no two pairs
\* of a run write to the same report path.
C10_OneReportPerPair ==
    /\ \A n \in DOMAIN invocations : invocations[n].pair = n
    /\ \A a, b \in DOMAIN invocations : a # b => invocations[a].out # invocations[b].out

(* ================= properties of one run, continued ==================== *)
\* the report file the analyzer was asked to write for invocation n
ReportOf(n) == output_folder[DirOf(invocations[n].out)]

\* C11: an analyzer invocation that fails is not noticed in the loop, but it
\* surfaces in the aggregator: a run that completes the aggregation has, for each
\* invocation, the complete report that invocation wrote.
C11_FailureSurfaces ==
    pc \in {"emit", "done"} =>
        \A n \in DOMAIN invocations : ReportOf(n).run = 1 /\ ReportOf(n).intact

\* C12: a report is created by an invocation of the run, parsed once and then
\* discarded: every parsed report was written by this run, no path is parsed
\* twice, and no report is left in the output folder when the run is done.
C12_ReportLifecycle ==
    /\ \A n \in DOMAIN parsed : output_folder[parsed[n].path].run = 1
    /\ \A a, b \in DOMAIN parsed : a # b => parsed[a].path # parsed[b].path
    /\ pc = "done" => \A d \in Dirs : output_folder[d] = Absent

\* C13: when the loop ends without an assertion halt, every globbed *_pred file
\* and every globbed *_gt file was one side of exactly one analysed pair.
C13_EveryFileScored ==
    (pc = "loop" /\ i > ZipLen(pred_files, gt_files)) =>
        /\ Len(pred_files) = Len(invocations)
        /\ Len(gt_files) = Len(invocations)
        /\ \A n \in DOMAIN invocations :
            /\ invocations[n].pair = n
            /\ invocations[n].out = SubjectOf(pred_files[n])
            /\ SubjectOf(pred_files[n]) = SubjectOf(gt_files[n])

\* a is an initial segment of b
IsPrefix(a, b) == Len(a) <= Len(b) /\ SubSeq(b, 1, Len(a)) = a

\* C14: every key of the aggregate table maps to a non-empty list, keys are
\* distinct, a metric with no finite value in a non-skipped report has no key,
\* and a step only appends: each key keeps its place and its list stays an
\* initial segment of the list after the step.
C14_TableInvariant ==
    /\ \A n \in DOMAIN test_metrics : test_metrics[n].values # <<>>
    /\ \A a, b \in DOMAIN test_metrics : a # b => test_metrics[a].key # test_metrics[b].key
    /\ \A key \in Names : HasKey(test_metrics, key) => Collected(parsed, key) # <<>>

C14_TableOnlyGrows ==
    \A n \in DOMAIN test_metrics :
        /\ n \in DOMAIN test_metrics'
        /\ test_metrics'[n].key = test_metrics[n].key
        /\ IsPrefix(test_metrics[n].values, test_metrics'[n].values)

C14_NonEmptyGrowingLists == [](C14_TableInvariant) /\ [][C14_TableOnlyGrows]_vars

C14_Witness ==
    /\ pc = "done"
    /\ Len(ValuesOf(test_metrics, "Hausdorff")) = 2
    /\ \E n \in DOMAIN parsed : Len(parsed[n].root) = 3
    /\ ~HasKey(test_metrics, "Jaccard")
    /\ Len(NewLines) = 1 + Len(test_metrics)

(* ===================== charts_utils.create_perf_df_pwd ================= *)
\* A float is the fraction num / den with den >= 0: den = 0 is +inf (num > 0),
\* -inf (num < 0) or NaN (num = 0), as numpy division by zero gives them.
RECURSIVE GCD(_, _)
GCD(a, b) == IF b = 0 THEN a ELSE GCD(b, a % b)
Abs(x) == IF x < 0 THEN -x ELSE x
Sign(x) == IF x > 0 THEN 1 ELSE IF x < 0 THEN -1 ELSE 0
Frac(n, d) ==
    IF d = 0 THEN [num |-> Sign(n), den |-> 0]
    ELSE IF d < 0 THEN [num |-> (-n) \div GCD(Abs(n), Abs(d)), den |-> (-d) \div GCD(Abs(n), Abs(d))]
    ELSE [num |-> n \div GCD(Abs(n), d), den |-> d \div GCD(Abs(n), d)]
FInt(x) == [num |-> x, den |-> 1]
IsInf(a) == a.den = 0 /\ a.num # 0
FAdd(a, b) ==
    IF IsInf(a) /\ IsInf(b)
    THEN (IF a.num = b.num THEN a ELSE [num |-> 0, den |-> 0])
    ELSE Frac(a.num * b.den + b.num * a.den, a.den * b.den)
FNeg(a) == [num |-> -a.num, den |-> a.den]
FSub(a, b) == FAdd(a, FNeg(b))
FMul(a, b) == Frac(a.num * b.num, a.den * b.den)
FDiv(a, b) ==
    IF IsInf(a) /\ b.den # 0
    THEN [num |-> IF b.num < 0 THEN -a.num ELSE a.num, den |-> 0]
    ELSE Frac(a.num * b.den, a.den * b.num)

\* the columns <method>_<contrast> and the values of the one row
PwdMethods == {"a", "b"}
PwdContrasts == {"t1w", "t2w", "dwi"}
CellValues == {FInt(2), FInt(4)}
\* the longest `contrasts` list
MaxContrasts == 2
Col(method, suffix) == <<method, suffix>>
InputColumns == { Col(mt, c) : mt \in PwdMethods, c \in PwdContrasts }
\* `contrasts`: lists of distinct contrast names
ContrastLists ==
    UNION { { cs \in [1..n -> PwdContrasts] : \A a, b \in 1..n : a # b => cs[a] # cs[b] } :
            n \in 0..MaxContrasts }

\* df[col] = value: the column is replaced, or added when new
SetColumn(df, col, value) ==
    [c \in DOMAIN df \cup {col} |-> IF c = col THEN value ELSE df[c]]

\* line 36
agg_cols(model_prefix, cs) == [n \in DOMAIN cs |-> Col(model_prefix, cs[n])]

\* np.mean([df[col] for col in cols], axis=0) on one row
RECURSIVE ColumnSum(_, _)
ColumnSum(df, cols) ==
    IF cols = <<>> THEN FInt(0) ELSE FAdd(df[Head(cols)], ColumnSum(df, Tail(cols)))
ColumnMean(df, cols) == FDiv(ColumnSum(df, cols), FInt(Len(cols)))

\* lines 40-41: 100 * (df[ref_col] - df[col]) / df[ref_col]
Pwd(df, ref_col, col) == FDiv(FMul(FInt(100), FSub(df[ref_col], df[col])), df[ref_col])

AnimaIdle ==
    /\ pc = "idle"
    /\ exc = "none"
    /\ pred_files = <<>>
    /\ gt_files = <<>>
    /\ i = 0
    /\ subject_pred = NoSubject
    /\ subject_gt = NoSubject
    /\ pred_raw = NoVolume
    /\ gt_raw = NoVolume
    /\ pred_npy = NoVolume
    /\ gt_npy = NoVolume
    /\ tmp_files = {}
    /\ output_folder = [d \in Dirs |-> Absent]
    /\ invocations = <<>>
    /\ subject_filepaths = <<>>
    /\ j = 0
    /\ subject = ""
    /\ root_node = <<>>
    /\ m = 0
    /\ parsed = <<>>
    /\ test_metrics = <<>>
    /\ k = 0
    /\ log = <<>>
    /\ log_before = <<>>

\* the call create_perf_df_pwd(dataframe, methods, contrasts, ref_contrast)
InitPwd ==
    /\ AnimaIdle
    /\ pwd_pc = "copy"
    /\ dataframe \in [InputColumns -> CellValues]
    /\ df_copy = <<>>
    /\ methods \in {<<"a">>, <<"a", "b">>, <<"b", "a">>}
    /\ contrasts \in ContrastLists
    /\ ref_contrast \in PwdContrasts
    /\ method_idx = 0
    /\ contrast_idx = 0

\* lines 32-33
PwdCopy ==
    /\ pwd_pc = "copy"
    /\ df_copy' = dataframe
    /\ method_idx' = 1
    /\ pwd_pc' = "method"
    /\ UNCHANGED << dataframe, methods, contrasts, ref_contrast, contrast_idx >>
    /\ UNCHANGED animaVars

\* lines 35-37: the next method
PwdNextMethod ==
    /\ pwd_pc = "method"
    /\ method_idx <= Len(methods)
    /\ contrast_idx' = 1
    /\ pwd_pc' = "contrast"
    /\ UNCHANGED << dataframe, df_copy, methods, contrasts, ref_contrast, method_idx >>
    /\ UNCHANGED animaVars

\* lines 38-41: one contrast column is rewritten in df_copy
PwdColumn ==
    /\ pwd_pc = "contrast"
    /\ contrast_idx <= Len(contrasts)
    /\ df_copy' = SetColumn(df_copy,
                            agg_cols(methods[method_idx], contrasts)[contrast_idx],
                            Pwd(df_copy, Col(methods[method_idx], ref_contrast),
                                agg_cols(methods[method_idx], contrasts)[contrast_idx]))
    /\ contrast_idx' = contrast_idx + 1
    /\ UNCHANGED << pwd_pc, dataframe, methods, contrasts, ref_contrast, method_idx >>
    /\ UNCHANGED animaVars

\* line 42: the method's performance column
PwdPerfColumn ==
    /\ pwd_pc = "contrast"
    /\ contrast_idx > Len(contrasts)
    /\ df_copy' = SetColumn(df_copy, Col(methods[method_idx], "perf_pwd"),
                            ColumnMean(df_copy, agg_cols(methods[method_idx], contrasts)))
    /\ method_idx' = method_idx + 1
    /\ pwd_pc' = "method"
    /\ UNCHANGED << dataframe, methods, contrasts, ref_contrast, contrast_idx >>
    /\ UNCHANGED animaVars

\* line 44
PwdReturn ==
    /\ pwd_pc = "method"
    /\ method_idx > Len(methods)
    /\ pwd_pc' = "return"
    /\ UNCHANGED << dataframe, df_copy, methods, contrasts, ref_contrast,
                    method_idx, contrast_idx >>
    /\ UNCHANGED animaVars

NextPwd ==
    \/ PwdCopy
    \/ PwdNextMethod
    \/ PwdColumn
    \/ PwdPerfColumn
    \/ PwdReturn

SpecPwd == InitPwd /\ [][NextPwd]_vars

\* C8: the returned dataframe has, for every method and every contrast of
\* `contrasts`, 100 * (ref - c) / ref of the values the input dataframe holds;
\* <method>_perf_pwd is the mean of those columns; the input is unchanged.
C8_PwdFromOriginal ==
    pwd_pc = "return" =>
        /\ \A n \in DOMAIN methods : \A q \in DOMAIN contrasts :
            df_copy[Col(methods[n], contrasts[q])]
                = Pwd(dataframe, Col(methods[n], ref_contrast), Col(methods[n], contrasts[q]))
        /\ \A n \in DOMAIN methods :
            df_copy[Col(methods[n], "perf_pwd")]
                = ColumnMean(df_copy, agg_cols(methods[n], contrasts))
        /\ dataframe \in [InputColumns -> CellValues]

====
